---------------------------- MODULE Spec2Model ----------------------------
(***************************************************************************)
(* Business-card scanner: the CardScanner component (capture, dual-engine  *)
(* OCR in processImage, heuristic field extraction in extractContactInfo), *)
(* the vision-ocr edge function it calls, and the Index page mounting it.  *)
(*                                                                         *)
(* Strings are TLA+ strings; a character is a string of length one.        *)
(* Confidences are JavaScript numbers in the code; here they are integers  *)
(* counting thousandths, so that 0.8 is Milli(8, 10) and c / 100 is        *)
(* Milli(c, 100).                                                          *)
(***************************************************************************)
EXTENDS Integers, Sequences, FiniteSets, TLC

(***************************************************************************)
(* Characters and the JavaScript string methods the code uses.             *)
(***************************************************************************)
Null == "<null>"

Ch(s, i) == SubSeq(s, i, i)

Digits == {"0", "1", "2", "3", "4", "5", "6", "7", "8", "9"}

UpperSeq == <<"A", "B", "C", "D", "E", "F", "G", "H", "I", "J", "K", "L", "M",
              "N", "O", "P", "Q", "R", "S", "T", "U", "V", "W", "X", "Y", "Z">>

LowerSeq == <<"a", "b", "c", "d", "e", "f", "g", "h", "i", "j", "k", "l", "m",
              "n", "o", "p", "q", "r", "s", "t", "u", "v", "w", "x", "y", "z">>

Upper == {UpperSeq[k] : k \in 1..26}

Lower == {LowerSeq[k] : k \in 1..26}

Letters == Upper \cup Lower

\* \w, \s and the line terminators of a JavaScript regular expression
WordChars == Letters \cup Digits \cup {"_"}

WhiteSpace == {" ", "\t", "\n", "\r"}

LineTerminators == {"\n", "\r"}

lowerOf == [c \in Upper |-> LowerSeq[CHOOSE k \in 1..26 : UpperSeq[k] = c]]

upperOf == [c \in Lower |-> UpperSeq[CHOOSE k \in 1..26 : LowerSeq[k] = c]]

LowerChar(c) == IF c \in Upper THEN lowerOf[c] ELSE c

UpperChar(c) == IF c \in Lower THEN upperOf[c] ELSE c

RECURSIVE LowerFrom(_, _)
LowerFrom(s, i) ==
    IF i > Len(s) THEN "" ELSE LowerChar(Ch(s, i)) \o LowerFrom(s, i + 1)

\* String.prototype.toLowerCase
toLowerCase(s) == LowerFrom(s, 1)

RECURSIVE SkipLeft(_, _)
SkipLeft(s, i) ==
    IF i <= Len(s) /\ Ch(s, i) \in WhiteSpace THEN SkipLeft(s, i + 1) ELSE i

RECURSIVE SkipRight(_, _)
SkipRight(s, j) ==
    IF j >= 1 /\ Ch(s, j) \in WhiteSpace THEN SkipRight(s, j - 1) ELSE j

\* String.prototype.trim
trim(s) == SubSeq(s, SkipLeft(s, 1), SkipRight(s, Len(s)))

\* String.prototype.includes
includes(s, t) ==
    \E i \in 1..(Len(s) - Len(t) + 1) : SubSeq(s, i, i + Len(t) - 1) = t

\* String.prototype.endsWith
endsWith(s, t) ==
    Len(t) <= Len(s) /\ SubSeq(s, Len(s) - Len(t) + 1, Len(s)) = t


(***************************************************************************)
(* Regular expressions.  A pattern is a tree of the nodes below; Match is  *)
(* the backtracking matcher of the JavaScript engine: alternatives are     *)
(* tried left to right, quantifiers are greedy, and the first way that     *)
(* lets the rest of the pattern match is the one taken.                    *)
(***************************************************************************)
Set(S) == <<"set", S>>

NotSet(S) == <<"nset", S>>

AnyChar == <<"any">>

Lit(t) == <<"lit", t>>

Cat(rs) == <<"cat", rs>>

Alt(rs) == <<"alt", rs>>

\* r{min,max}, r{min,} ; r? is Rep(r, 0, 1), r+ is RepMin(r, 1), r* is RepMin(r, 0)
Rep(r, min, max) == <<"rep", r, min, max>>

RepMin(r, min) == <<"repmin", r, min>>

Opt(r) == Rep(r, 0, 1)

Bol == <<"bol">>

Eol == <<"eol">>

Pred(n) == IF n > 0 THEN n - 1 ELSE 0

SameChar(c, d, ci) == c = d \/ (ci /\ LowerChar(c) = LowerChar(d))

InSet(c, S, ci) == c \in S \/ (ci /\ (LowerChar(c) \in S \/ UpperChar(c) \in S))

RECURSIVE SameText(_, _, _, _, _)
SameText(s, i, t, k, ci) ==
    \/ k > Len(t)
    \/ /\ i <= Len(s)
       /\ SameChar(Ch(s, i), Ch(t, k), ci)
       /\ SameText(s, i + 1, t, k + 1, ci)

\* Match(rs, s, i, ci): the patterns rs matched one after the other from
\* position i of s; the position after the match, or 0 when there is none.
RECURSIVE Match(_, _, _, _)
RECURSIVE MatchAlt(_, _, _, _, _)
Match(rs, s, i, ci) ==
    IF rs = <<>> THEN i
    ELSE
      LET r == Head(rs)
          rest == Tail(rs)
          kind == r[1]
      IN  CASE kind = "set" ->
                 IF i <= Len(s) /\ InSet(Ch(s, i), r[2], ci)
                 THEN Match(rest, s, i + 1, ci) ELSE 0
            [] kind = "nset" ->
                 IF i <= Len(s) /\ ~InSet(Ch(s, i), r[2], ci)
                 THEN Match(rest, s, i + 1, ci) ELSE 0
            [] kind = "any" ->
                 IF i <= Len(s) /\ Ch(s, i) \notin LineTerminators
                 THEN Match(rest, s, i + 1, ci) ELSE 0
            [] kind = "lit" ->
                 IF SameText(s, i, r[2], 1, ci)
                 THEN Match(rest, s, i + Len(r[2]), ci) ELSE 0
            [] kind = "cat" -> Match(r[2] \o rest, s, i, ci)
            [] kind = "alt" -> MatchAlt(r[2], rest, s, i, ci)
            [] kind = "rep" ->
                 LET more == IF r[4] > 0
                             THEN Match(<<r[2], Rep(r[2], Pred(r[3]), r[4] - 1)>> \o rest,
                                        s, i, ci)
                             ELSE 0
                 IN  IF more # 0 THEN more
                     ELSE IF r[3] = 0 THEN Match(rest, s, i, ci) ELSE 0
            [] kind = "repmin" ->
                 LET more == IF i <= Len(s)
                             THEN Match(<<r[2], RepMin(r[2], Pred(r[3]))>> \o rest,
                                        s, i, ci)
                             ELSE 0
                 IN  IF more # 0 THEN more
                     ELSE IF r[3] = 0 THEN Match(rest, s, i, ci) ELSE 0
            [] kind = "bol" -> IF i = 1 THEN Match(rest, s, i, ci) ELSE 0
            [] kind = "eol" -> IF i = Len(s) + 1 THEN Match(rest, s, i, ci) ELSE 0

MatchAlt(alts, rest, s, i, ci) ==
    IF alts = <<>> THEN 0
    ELSE LET e == Match(<<Head(alts)>> \o rest, s, i, ci)
         IN  IF e # 0 THEN e ELSE MatchAlt(Tail(alts), rest, s, i, ci)

\* RegExp.prototype.test for a pattern without the g flag
Test(re, s, ci) == \E i \in 1..(Len(s) + 1) : Match(<<re>>, s, i, ci) # 0

\* String.prototype.match with the g flag: every match, left to right, as the
\* matched text.  JavaScript returns null where this returns <<>>; the code
\* reads the result only through ?.some and ?.[0], which treat the two alike.
RECURSIVE MatchAll(_, _, _, _)
MatchAll(re, s, i, ci) ==
    IF i > Len(s) + 1 THEN <<>>
    ELSE LET e == Match(<<re>>, s, i, ci)
         IN  IF e = 0 THEN MatchAll(re, s, i + 1, ci)
             ELSE <<SubSeq(s, i, e - 1)>>
                  \o MatchAll(re, s, IF e = i THEN i + 1 ELSE e, ci)

\* String.prototype.replace(re, by) with the g flag, by a constant text
RECURSIVE ReplaceAll(_, _, _, _, _)
ReplaceAll(re, by, s, i, ci) ==
    IF i > Len(s) THEN ""
    ELSE LET e == Match(<<re>>, s, i, ci)
         IN  IF e = 0 \/ e = i THEN Ch(s, i) \o ReplaceAll(re, by, s, i + 1, ci)
             ELSE by \o ReplaceAll(re, by, s, e, ci)

\* String.prototype.replace(re, by) for a pattern anchored at the start
ReplaceFirstAt1(re, by, s) ==
    LET e == Match(<<re>>, s, 1, FALSE)
    IN  IF e = 0 THEN s ELSE by \o SubSeq(s, e, Len(s))

\* String.prototype.split(re): the pieces between the matches of re
RECURSIVE Split(_, _, _, _)
Split(re, s, from, i) ==
    IF i > Len(s) THEN <<SubSeq(s, from, Len(s))>>
    ELSE LET e == Match(<<re>>, s, i, FALSE)
         IN  IF e = 0 \/ e = i THEN Split(re, s, from, i + 1)
             ELSE <<SubSeq(s, from, i - 1)>> \o Split(re, s, e, e)

\* Array.prototype.find over the indices whose elements satisfy the
\* predicate: the first of them, or 0 (find returns undefined)
FirstOf(hits) == IF hits = {} THEN 0 ELSE CHOOSE k \in hits : \A j \in hits : k <= j

(***************************************************************************)
(* extractContactInfo (CardScanner).  An unset field (undefined) is Null.  *)
(***************************************************************************)
AlphaNum == Letters \cup Digits

SpaceOrHyphen == WhiteSpace \cup {"-"}

\* /([a-zA-Z0-9._%+-]+@[a-zA-Z0-9.-]+\.[a-zA-Z]{2,})/gi
emailRegex ==
    Cat(<<RepMin(Set(AlphaNum \cup {".", "_", "%", "+", "-"}), 1), Lit("@"),
          RepMin(Set(AlphaNum \cup {".", "-"}), 1), Lit("."),
          RepMin(Set(Letters), 2)>>)

\* /(\+?91[\s-]?[6-9]\d{9}
\*  |\+?1[\s-]?\(?[2-9]\d{2}\)?[\s-]?[2-9]\d{2}[\s-]?\d{4}
\*  |\+?[1-9]\d{1,14})/g
phoneRegex ==
    Alt(<<Cat(<<Opt(Lit("+")), Lit("91"), Opt(Set(SpaceOrHyphen)),
                Set({"6", "7", "8", "9"}), Rep(Set(Digits), 9, 9)>>),
          Cat(<<Opt(Lit("+")), Lit("1"), Opt(Set(SpaceOrHyphen)), Opt(Lit("(")),
                Set(Digits \ {"0", "1"}), Rep(Set(Digits), 2, 2), Opt(Lit(")")),
                Opt(Set(SpaceOrHyphen)),
                Set(Digits \ {"0", "1"}), Rep(Set(Digits), 2, 2),
                Opt(Set(SpaceOrHyphen)), Rep(Set(Digits), 4, 4)>>),
          Cat(<<Opt(Lit("+")), Set(Digits \ {"0"}), Rep(Set(Digits), 1, 14)>>)>>)

\* /(?:https?:\/\/)?(?:www\.)?([a-zA-Z0-9][a-zA-Z0-9-]{1,61}[a-zA-Z0-9]\.[a-zA-Z]{2,})/gi
websiteRegex ==
    Cat(<<Opt(Cat(<<Lit("http"), Opt(Lit("s")), Lit("://")>>)),
          Opt(Lit("www.")),
          Set(AlphaNum), Rep(Set(AlphaNum \cup {"-"}), 1, 61), Set(AlphaNum),
          Lit("."), RepMin(Set(Letters), 2)>>)

\* text.replace(/[^\w\s@.+\-()]/gi, ' ').replace(/\s+/g, ' ').trim()
cleanText(text) ==
    LET kept == WordChars \cup WhiteSpace \cup {"@", ".", "+", "-", "(", ")"}
        noSymbols == ReplaceAll(NotSet(kept), " ", text, 1, TRUE)
    IN  trim(ReplaceAll(RepMin(Set(WhiteSpace), 1), " ", noSymbols, 1, FALSE))

\* text.split(/[\n\r]+/).map(line => line.trim()).filter(line => line.length > 1)
RECURSIVE trimmedLongLines(_)
trimmedLongLines(pieces) ==
    IF pieces = <<>> THEN <<>>
    ELSE (IF Len(trim(Head(pieces))) > 1 THEN <<trim(Head(pieces))>> ELSE <<>>)
         \o trimmedLongLines(Tail(pieces))

linesOf(text) == trimmedLongLines(Split(RepMin(Set(LineTerminators), 1), text, 1, 1))

\* phone.replace(/\D/g, '')
digitsOf(phone) == ReplaceAll(NotSet(Digits), "", phone, 1, FALSE)

\* emails?.some(email => trimmed.toLowerCase().includes(email.toLowerCase()))
containsEmail(trimmed, emails) ==
    \E k \in 1..Len(emails) : includes(toLowerCase(trimmed), toLowerCase(emails[k]))

\* phones?.some(phone => trimmed.includes(phone.replace(/\D/g, '')))
containsPhone(trimmed, phones) ==
    \E k \in 1..Len(phones) : includes(trimmed, digitsOf(phones[k]))

\* websites?.some(website => trimmed.toLowerCase().includes(website.toLowerCase()))
containsWebsite(trimmed, websites) ==
    \E k \in 1..Len(websites) : includes(toLowerCase(trimmed), toLowerCase(websites[k]))

\* /^[A-Z][a-zA-Z]{1,}\s+[A-Z][a-zA-Z]{1,}(\s+[A-Z][a-zA-Z]{1,})?$/
isValidName(trimmed) ==
    LET word == Cat(<<Set(Upper), RepMin(Set(Letters), 1)>>)
        gap == RepMin(Set(WhiteSpace), 1)
    IN  Test(Cat(<<Bol, word, gap, word, Opt(Cat(<<gap, word>>)), Eol>>),
             trimmed, FALSE)

\* !/\d/.test(trimmed)
hasNoNumbers(trimmed) == ~Test(Set(Digits), trimmed, FALSE)

\* a nameCandidate predicate without the index check
isNameAnywhere(line, index, emails, phones, websites) ==
    LET trimmed == trim(line)
    IN  /\ isValidName(trimmed)
        /\ hasNoNumbers(trimmed)
        /\ ~containsEmail(trimmed, emails)
        /\ ~containsPhone(trimmed, phones)
        /\ ~containsWebsite(trimmed, websites)

\* the predicate of nameCandidate = lines.find((line, index) => ...)
isName(line, index, emails, phones, websites) ==
    LET trimmed == trim(line)
    IN  /\ ~(index > 3)
        /\ isValidName(trimmed)
        /\ hasNoNumbers(trimmed)
        /\ ~containsEmail(trimmed, emails)
        /\ ~containsPhone(trimmed, phones)
        /\ ~containsWebsite(trimmed, websites)

nameIndex(lines, emails, phones, websites) ==
    FirstOf({k \in 1..Len(lines) : isName(lines[k], k - 1, emails, phones, websites)})

companyKeywords ==
    <<"inc", "inc.", "ltd", "ltd.", "llc", "corp", "corporation", "company", "co.", "co",
      "group", "solutions", "services", "technologies", "systems", "enterprises",
      "consulting", "pvt", "private", "limited", "software", "tech", "digital",
      "innovation">>

\* companyKeywords.some(keyword => trimmed.includes(keyword) || trimmed.endsWith(keyword))
hasCompanyKeyword(trimmed) ==
    \E k \in 1..Len(companyKeywords) :
        includes(trimmed, companyKeywords[k]) \/ endsWith(trimmed, companyKeywords[k])

\* /^[A-Z][a-zA-Z\s&,.-]{2,}/
isProperCase(trimmed) ==
    Test(Cat(<<Bol, Set(Upper),
               RepMin(Set(Letters \cup WhiteSpace \cup {"&", ",", ".", "-"}), 2)>>),
         trimmed, FALSE)

\* a companyCandidate predicate that takes a Title-Case line at any index
isCompanyAnywhere(line, index, nameCandidate, emails, phones) ==
    LET trimmed == toLowerCase(trim(line))
    IN  /\ ~(nameCandidate # Null /\ line = nameCandidate)
        /\ ~containsEmail(trimmed, emails)
        /\ ~containsPhone(trimmed, phones)
        /\ (hasCompanyKeyword(trimmed) \/ isProperCase(trim(line)))

\* the predicate of companyCandidate = lines.find((line, index) => ...);
\* nameCandidate is a line or Null
isCompany(line, index, nameCandidate, emails, phones) ==
    LET trimmed == toLowerCase(trim(line))
    IN  /\ ~(nameCandidate # Null /\ line = nameCandidate)
        /\ ~containsEmail(trimmed, emails)
        /\ ~containsPhone(trimmed, phones)
        /\ (hasCompanyKeyword(trimmed) \/ (isProperCase(trim(line)) /\ index < 5))

companyIndex(lines, nameCandidate, emails, phones) ==
    FirstOf({k \in 1..Len(lines) :
                isCompany(lines[k], k - 1, nameCandidate, emails, phones)})

titleKeywords ==
    <<"manager", "director", "ceo", "cto", "cfo", "president", "vice president", "vp",
      "senior", "lead", "head", "chief", "engineer", "developer", "analyst",
      "consultant", "specialist", "coordinator", "executive", "officer", "founder",
      "partner", "associate">>

\* titleKeywords.some(keyword => trimmed.includes(keyword))
hasTitleKeyword(trimmed) ==
    \E k \in 1..Len(titleKeywords) : includes(trimmed, titleKeywords[k])

\* a jobTitleCandidate predicate that skips the name only
isJobTitleOrCompany(line, nameCandidate, companyCandidate) ==
    LET trimmed == toLowerCase(trim(line))
    IN  /\ ~(nameCandidate # Null /\ line = nameCandidate)
        /\ hasTitleKeyword(trimmed)

\* the predicate of jobTitleCandidate = lines.find(line => ...)
isJobTitle(line, nameCandidate, companyCandidate) ==
    LET trimmed == toLowerCase(trim(line))
    IN  /\ ~(nameCandidate # Null /\ line = nameCandidate)
        /\ ~(companyCandidate # Null /\ line = companyCandidate)
        /\ hasTitleKeyword(trimmed)

jobTitleIndex(lines, nameCandidate, companyCandidate) ==
    FirstOf({k \in 1..Len(lines) : isJobTitle(lines[k], nameCandidate, companyCandidate)})

\* /\d+.*(?:street|st\.?|avenue|ave\.?|road|rd\.?|drive|dr\.?|lane|ln\.?|boulevard|blvd\.?)/i
streetRegex ==
    LET dot == Opt(Lit("."))
    IN  Cat(<<RepMin(Set(Digits), 1), RepMin(AnyChar, 0),
              Alt(<<Lit("street"), Cat(<<Lit("st"), dot>>),
                    Lit("avenue"), Cat(<<Lit("ave"), dot>>),
                    Lit("road"), Cat(<<Lit("rd"), dot>>),
                    Lit("drive"), Cat(<<Lit("dr"), dot>>),
                    Lit("lane"), Cat(<<Lit("ln"), dot>>),
                    Lit("boulevard"), Cat(<<Lit("blvd"), dot>>)>>)>>)

\* /[A-Z][a-z]+,\s*[A-Z]{2}\s*\d{5}/
cityStateZipRegex ==
    Cat(<<Set(Upper), RepMin(Set(Lower), 1), Lit(","), RepMin(Set(WhiteSpace), 0),
          Rep(Set(Upper), 2, 2), RepMin(Set(WhiteSpace), 0), Rep(Set(Digits), 5, 5)>>)

\* the four address patterns of addressCandidate, tried in this order
looksLikeAddress(trimmed) ==
    \/ Test(streetRegex, trimmed, TRUE)
    \/ Test(cityStateZipRegex, trimmed, FALSE)
    \/ Test(Rep(Set(Digits), 6, 6), trimmed, FALSE)
    \/ Test(Rep(Set(Digits), 5, 5), trimmed, FALSE)

\* the predicate of addressCandidate = lines.find(line => ...)
isAddress(line, emails, phones) ==
    LET trimmed == trim(line)
    IN  /\ ~containsEmail(trimmed, emails)
        /\ ~containsPhone(trimmed, phones)
        /\ looksLikeAddress(trimmed)

addressIndex(lines, emails, phones) ==
    FirstOf({k \in 1..Len(lines) : isAddress(lines[k], emails, phones)})

\* candidate?.trim() for the line found at index k (0: nothing found)
lineAt(lines, k) == IF k = 0 THEN Null ELSE lines[k]

\* a trim that turns a missing candidate into the empty string
trimmedOrEmpty(line) == IF line = Null THEN "" ELSE trim(line)

trimmedOrNull(line) == IF line = Null THEN Null ELSE trim(line)

\* the first phone as it was matched, punctuation kept
cleanPhoneAsWritten(phones) == IF phones = <<>> THEN Null ELSE phones[1]

\* phones?.[0]?.replace(/[^\d+]/g, '')
cleanPhone(phones) ==
    IF phones = <<>> THEN Null
    ELSE ReplaceAll(NotSet(Digits \cup {"+"}), "", phones[1], 1, FALSE)

\* websites?.[0]?.replace(/^(https?:\/\/)?/, '')
websiteOf(websites) ==
    IF websites = <<>> THEN Null
    ELSE ReplaceFirstAt1(Opt(Cat(<<Lit("http"), Opt(Lit("s")), Lit("://")>>)), "",
                         websites[1])

\* extractContactInfo computes its values one after the other; each operator
\* below takes the values computed so far and adds the next.
\* jobTitleCandidate and addressCandidate: the last two lines.find calls.  A
\* candidate is kept as the index of its line (1-based, 0: none found).
withCompany(lines, emails, phones, websites, nameAt, companyAt) ==
    [lines |-> lines, emails |-> emails, phones |-> phones, websites |-> websites,
     nameAt |-> nameAt, companyAt |-> companyAt,
     jobTitleAt |-> jobTitleIndex(lines, lineAt(lines, nameAt), lineAt(lines, companyAt)),
     addressAt |-> addressIndex(lines, emails, phones)]

\* companyCandidate
withName(lines, emails, phones, websites, nameAt) ==
    withCompany(lines, emails, phones, websites, nameAt,
                companyIndex(lines, lineAt(lines, nameAt), emails, phones))

\* nameCandidate
withMatches(lines, emails, phones, websites) ==
    withName(lines, emails, phones, websites,
             nameIndex(lines, emails, phones, websites))

\* emails, phones, websites: cleanText.match(...) of the three patterns,
\* searching from index start (0-based)
withCleanText(lines, clean, start) ==
    withMatches(lines, MatchAll(emailRegex, clean, start + 1, TRUE),
                MatchAll(phoneRegex, clean, start + 1, FALSE),
                MatchAll(websiteRegex, clean, start + 1, TRUE))

\* a call whose patterns resume where the patterns of the call before stopped
searchStartWhereLeft(left) == left

\* Where cleanText.match(pattern) starts to search in a call, left being the
\* index at which the searches of the call before ended: every call creates
\* its three patterns anew, with lastIndex 0, and String.prototype.match with
\* a global pattern searches from index 0 whatever lastIndex is.
searchStart(left) == 0

\* cleanText and lines of a call made after a call whose searches ended at
\* left; the result holds what extractContactInfo has found when it reaches
\* its return statement
classifyAfter(text, left) ==
    withCleanText(linesOf(text), cleanText(text), searchStart(left))

\* a call with no call before it
classify(text) == classifyAfter(text, 0)

\* an object literal whose raw_text is the trimmed text
contactOfTrimmedText(c, text, confidence, uploadSource) ==
    [name |-> trimmedOrNull(lineAt(c.lines, c.nameAt)),
     email |-> IF c.emails = <<>> THEN Null ELSE toLowerCase(c.emails[1]),
     phone |-> cleanPhone(c.phones),
     website |-> websiteOf(c.websites),
     company |-> trimmedOrNull(lineAt(c.lines, c.companyAt)),
     job_title |-> trimmedOrNull(lineAt(c.lines, c.jobTitleAt)),
     location |-> trimmedOrNull(lineAt(c.lines, c.addressAt)),
     raw_text |-> trim(text),
     source |-> uploadSource,
     confidence |-> confidence]

\* the object literal extractContactInfo returns, c being what it has found
contactOf(c, text, confidence, uploadSource) ==
    [name |-> trimmedOrNull(lineAt(c.lines, c.nameAt)),
     email |-> IF c.emails = <<>> THEN Null ELSE toLowerCase(c.emails[1]),
     phone |-> cleanPhone(c.phones),
     website |-> websiteOf(c.websites),
     company |-> trimmedOrNull(lineAt(c.lines, c.companyAt)),
     job_title |-> trimmedOrNull(lineAt(c.lines, c.jobTitleAt)),
     location |-> trimmedOrNull(lineAt(c.lines, c.addressAt)),
     raw_text |-> text,
     source |-> uploadSource,
     confidence |-> confidence]

extractContactInfo(text, confidence, uploadSource) ==
    contactOf(classify(text), text, confidence, uploadSource)

(***************************************************************************)
(* Optional numbers and records: None is undefined, Just(v) a value.       *)
(***************************************************************************)
None == <<>>

Just(v) == <<v>>

\* n / d as a count of thousandths
Milli(n, d) == (n * 1000) \div d

(***************************************************************************)
(* The vision-ocr edge function.                                           *)
(***************************************************************************)
\* imageData.replace(/^data:image\/[a-z]+;base64,/, '')
base64Image(imageData) ==
    ReplaceFirstAt1(Cat(<<Lit("data:image/"), RepMin(Set(Lower), 1), Lit(";base64,")>>),
                    "", imageData)

\* x || 0.8 for an optional number x: undefined and 0 are both falsy
orDefaultConfidence(x) == IF x = None \/ x = Just(0) THEN Milli(8, 10) ELSE x[1]

\* a Response whose status is left at its default
ResponseWithoutStatus(status, body, success, text, confidence, error, content) ==
    [status |-> 200, body |-> body, success |-> success, text |-> text,
     confidence |-> confidence, error |-> error, content |-> content]

\* The Response of the handler.  body is the text of a non-JSON answer; the
\* other fields are those of the JSON answer; content is what was posted to
\* the provider (Null when the provider was not called).
Response(status, body, success, text, confidence, error, content) ==
    [status |-> status, body |-> body, success |-> success, text |-> text,
     confidence |-> confidence, error |-> error, content |-> content]

\* a handler that answers success, with no text, when the provider sends no
\* annotation
visionOcrAlwaysSucceeds(method, bodyOk, imageData, apiKey, provider) ==
    IF method = "OPTIONS"
    THEN Response(200, "ok", FALSE, Null, None, Null, Null)
    ELSE IF ~bodyOk
    THEN Response(500, Null, FALSE, Null, None, "Unexpected end of JSON input", Null)
    ELSE IF ~apiKey
    THEN Response(500, Null, FALSE, Null, None, "Google Cloud API key not configured",
                  Null)
    ELSE IF provider.kind = "throws"
    THEN Response(500, Null, FALSE, Null, None, "fetch failed", base64Image(imageData))
    ELSE Response(200, Null, TRUE, provider.description,
                  Just(orDefaultConfidence(provider.score)), Null,
                  base64Image(imageData))

\* serve(async (req) => ...).  bodyOk: req.json() yields an object holding
\* imageData; apiKey: GOOGLE_CLOUD_API_KEY is set; provider: what the fetch of
\* the provider and response.json() produce.
visionOcr(method, bodyOk, imageData, apiKey, provider) ==
    IF method = "OPTIONS"
    THEN Response(200, "ok", FALSE, Null, None, Null, Null)
    ELSE IF ~bodyOk
    THEN Response(500, Null, FALSE, Null, None, "Unexpected end of JSON input", Null)
    ELSE IF ~apiKey
    THEN Response(500, Null, FALSE, Null, None, "Google Cloud API key not configured",
                  Null)
    ELSE IF provider.kind = "throws"
    THEN Response(500, Null, FALSE, Null, None, "fetch failed", base64Image(imageData))
    ELSE IF provider.kind = "annotation"
    THEN Response(200, Null, TRUE, provider.description,
                  Just(orDefaultConfidence(provider.score)), Null,
                  base64Image(imageData))
    ELSE Response(500, Null, FALSE, Null, None, "No text detected in image",
                  base64Image(imageData))


(***************************************************************************)
(* Bounds and inputs of the model.                                         *)
(***************************************************************************)
\* CardScanner instances mounted, processImage calls, startCamera calls and
\* file reads over one session
MaxMounts == 2

MaxRuns == 2

MaxCameraStarts == 2

MaxReads == 1

\* canvas.toDataURL('image/jpeg', 0.9) and FileReader.readAsDataURL results
CameraImage == "data:image/jpeg;base64,Q0FN"

UploadImages == {"data:image/png;base64,UE5H"}

\* what an OCR engine may read off a card: nothing, less than three
\* characters once trimmed, a small card
OcrTexts == {"", " ab \n", "Ann Lee\nAcme Inc"}

\* textAnnotations[0].description of the provider: absent, or a text
Descriptions == {Null, " ab \n", "Ann Lee\nAcme Inc"}

\* textAnnotations[0].score of the provider: absent, 0, 0.95
Scores == {None, Just(0), Just(Milli(95, 100))}

\* result.data.confidence of Tesseract, on its 0..100 scale
LocalConfidences == {0, 87}

\* what fetch + response.json() of the provider produce for the handler
Provider(kind, description, score) ==
    [kind |-> kind, description |-> description, score |-> score]

Providers ==
    {Provider("throws", Null, None), Provider("noAnnotation", Null, None)}
    \cup {Provider("annotation", d, sc) : d \in Descriptions, sc \in Scores}

(***************************************************************************)
(* processImage (CardScanner): the decisions between its awaits.           *)
(***************************************************************************)
NoTextMessage == "No text could be extracted from the image"

GenericMessage == "Failed to process the image. Please try again with better lighting."

\* What supabase.functions.invoke('vision-ocr', ...) settles with: it threw,
\* or it returned { data, error } with data the JSON body of a 2xx answer and
\* null (None) otherwise.
Invoked(threw, data) == [threw |-> threw, data |-> data]

\* if (response.data?.success)
remoteSucceeded(response) ==
    ~response.threw /\ response.data # None /\ response.data[1].success

\* confidence = response.data.confidence || 0.8
remoteConfidence(data) == orDefaultConfidence(data.confidence)

\* a processImage that keeps Tesseract's 0..100 scale
localConfidenceUnscaled(confidence) == Milli(confidence, 1)

\* confidence = result.data.confidence / 100
localConfidence(confidence) == Milli(confidence, 100)

\* a processImage that only rejects a missing or empty text
noTextDetectedUntrimmed(extractedText) == extractedText = Null \/ extractedText = ""

\* if (!extractedText || extractedText.trim().length < 3)
noTextDetected(extractedText) ==
    extractedText = Null \/ extractedText = "" \/ Len(trim(extractedText)) < 3

\* error instanceof Error ? error.message : "Failed to process the image. ..."
toastDescription(isError, message) == IF isError THEN message ELSE GenericMessage

\* classify over the texts the engines of this model return, computed once
classified == [text \in OcrTexts \cup (Descriptions \ {Null}) |-> classify(text)]

\* an extractContactInfo that rounds the confidence down to tenths
extractedDataRounded(extractedText, confidence, uploadSource) ==
    contactOf(classified[extractedText], extractedText, (confidence \div 100) * 100,
              uploadSource)

\* extractContactInfo(extractedText, confidence) as processImage calls it
extractedData(extractedText, confidence, uploadSource) ==
    contactOf(classified[extractedText], extractedText, confidence, uploadSource)

(***************************************************************************)
(* State.                                                                  *)
(***************************************************************************)
VARIABLES
    \* Index
    showScanner,      \* useState(false)
    showContactForm,  \* useState(false)
    scannedData,      \* useState(null): None or Just(record)
    \* the CardScanner instances; the mounted one, if any, is number mounts
    mounts,           \* how many have been mounted
    scanning,         \* useState(false) of the mounted instance
    capturedImage,    \* useState(null) of the mounted instance, Null or a data URI
    cameraActive,     \* useState(false) of the mounted instance
    uploadSource,     \* useState('camera') of the mounted instance
    streamRef,        \* streamRef.current of each instance: a stream or 0 (null)
    \* asynchronous work
    cameraStarts,     \* how many startCamera calls there have been
    cams,             \* the startCamera calls at an await: [id, inst, pc]
    live,             \* the acquired streams whose tracks have not been stopped
    fileReads,        \* how many reader.readAsDataURL calls there have been
    reads,            \* the file reads under way: [id, inst, image]
    started,          \* how many processImage calls have passed their guard
    runs,             \* the processImage calls at an await
    last,             \* None, or Just(the processImage call that returned last)
    \* the pure-function harness
    input,            \* the argument of the function under study
    output,           \* None, or Just(what the function returned last)
    calls,            \* how many calls of the function there have been
    searchEnd         \* the index at which the searches of the last call ended

indexVars == <<showScanner, showContactForm, scannedData>>

scannerVars == <<mounts, scanning, capturedImage, cameraActive, uploadSource, streamRef>>

cameraVars == <<cameraStarts, cams, live>>

readVars == <<fileReads, reads>>

runVars == <<started, runs, last>>

pureVars == <<input, output, calls, searchEnd>>

vars == <<indexVars, scannerVars, cameraVars, readVars, runVars, pureVars>>

mounted(inst) == showScanner /\ mounts = inst

\* videoRef.current: the <video> element is rendered while the instance is
\* mounted and shows no captured image
videoRendered(inst) == mounted(inst) /\ capturedImage = Null

\* A processImage call: the capturedImage and uploadSource its closure holds,
\* where it stands, its variables extractedText and confidence, and what it
\* has done: the engine calls it made and with which image, how the Vision
\* attempt went (remote) and why (cause), what the engines reported (score,
\* localText, localConf), and how it ended (outcome, the description of the
\* Scan Failed toast, the record given to onScanComplete).  stage tells
\* whether the user has since left it behind (Retake) or abandoned it
\* (another image taken, or the scanner closed).
NewRun(id, inst, image, source) ==
    [id |-> id, inst |-> inst, image |-> image, source |-> source,
     stage |-> "current", pc |-> "remote",
     extractedText |-> "", confidence |-> 0,
     remoteCalls |-> 1, remoteImage |-> image, remote |-> "pending", cause |-> Null,
     score |-> None,
     localCalls |-> 0, localImage |-> Null, localText |-> Null, localConf |-> None,
     outcome |-> "pending", error |-> Null, delivered |-> None]

InitApp ==
    /\ showScanner = FALSE
    /\ showContactForm = FALSE
    /\ scannedData = None
    /\ mounts = 0
    /\ scanning = FALSE
    /\ capturedImage = Null
    /\ cameraActive = FALSE
    /\ uploadSource = "camera"
    /\ streamRef = [i \in 1..MaxMounts |-> 0]
    /\ cameraStarts = 0
    /\ cams = {}
    /\ live = {}
    /\ fileReads = 0
    /\ reads = {}
    /\ started = 0
    /\ runs = {}
    /\ last = None

NoCalls == output = None /\ calls = 0 /\ searchEnd = 0

Init == InitApp /\ input = "" /\ NoCalls

(***************************************************************************)
(* Camera: startCamera, stopCamera, the mount effect.                      *)
(***************************************************************************)
\* stopCamera() of instance inst, as the new values of streamRef and live;
\* its setCameraActive(false) is written where it is used
streamRefStopped(inst) == [streamRef EXCEPT ![inst] = 0]

liveStopped(inst) == live \ {streamRef[inst]}

\* startCamera() up to its first await: stopCamera(), then getUserMedia;
\* call k will acquire stream k
CameraStarted(inst) ==
    /\ cameraStarts < MaxCameraStarts
    /\ streamRef' = streamRefStopped(inst)
    /\ live' = liveStopped(inst)
    /\ cameraActive' = FALSE
    /\ cameraStarts' = cameraStarts + 1
    /\ cams' = cams \cup {[id |-> cameraStarts + 1, inst |-> inst, pc |-> "getUserMedia"]}

\* the useEffect cleanup of the mounted instance, which React runs when the
\* instance is unmounted; the state of an instance that is gone is reset
Unmounted ==
    /\ streamRef' = streamRefStopped(mounts)
    /\ live' = liveStopped(mounts)
    /\ scanning' = FALSE
    /\ capturedImage' = Null
    /\ cameraActive' = FALSE
    /\ uploadSource' = "camera"
    /\ UNCHANGED mounts

\* Index: the Scan New Card button, which the two modals cover
OpenScanner ==
    /\ ~showScanner /\ ~showContactForm
    /\ mounts < MaxMounts
    /\ showScanner' = TRUE
    /\ mounts' = mounts + 1
    /\ scanning' = FALSE
    /\ capturedImage' = Null
    /\ uploadSource' = "camera"
    /\ CameraStarted(mounts + 1)
    /\ UNCHANGED <<showContactForm, scannedData, readVars, runVars, pureVars>>

\* the scans in flight of the mounted instance are left behind
LeftBehind(how) ==
    {IF run.inst = mounts /\ run.stage # "abandoned"
     THEN [run EXCEPT !.stage = how] ELSE run : run \in runs}

\* CardScanner: the X button, onClose={() => setShowScanner(false)}
CloseScanner ==
    /\ showScanner
    /\ showScanner' = FALSE
    /\ Unmounted
    /\ runs' = LeftBehind("abandoned")
    /\ UNCHANGED <<showContactForm, scannedData, cameraStarts, cams, readVars,
                   started, last, pureVars>>

\* getUserMedia of call c rejects: the catch block of startCamera
GetUserMediaRejects(c) ==
    /\ c.pc = "getUserMedia"
    /\ cams' = cams \ {c}
    /\ cameraActive' = IF mounted(c.inst) THEN FALSE ELSE cameraActive
    /\ UNCHANGED <<indexVars, mounts, scanning, capturedImage, uploadSource, streamRef,
                   cameraStarts, live, readVars, runVars, pureVars>>

\* getUserMedia of call c resolves with stream c.id; with a <video> element
\* the call goes on to await videoRef.current.play()
GetUserMediaResolves(c) ==
    /\ c.pc = "getUserMedia"
    /\ streamRef' = [streamRef EXCEPT ![c.inst] = c.id]
    /\ live' = live \cup {c.id}
    /\ cams' = (cams \ {c})
               \cup (IF videoRendered(c.inst) THEN {[c EXCEPT !.pc = "play"]} ELSE {})
    /\ UNCHANGED <<indexVars, mounts, scanning, capturedImage, cameraActive,
                   uploadSource, cameraStarts, readVars, runVars, pureVars>>

\* videoRef.current.play() of call c settles: setCameraActive(true), or the
\* catch block
PlaySettles(c, ok) ==
    /\ c.pc = "play"
    /\ cams' = cams \ {c}
    /\ cameraActive' = IF mounted(c.inst) THEN ok ELSE cameraActive
    /\ UNCHANGED <<indexVars, mounts, scanning, capturedImage, uploadSource, streamRef,
                   cameraStarts, live, readVars, runVars, pureVars>>

(***************************************************************************)
(* Capture, upload, retake.                                                *)
(***************************************************************************)
\* a scan left behind by Retake is abandoned once another image is there
Replaced ==
    {IF run.inst = mounts /\ run.stage = "retaken"
     THEN [run EXCEPT !.stage = "abandoned"] ELSE run : run \in runs}

\* capturePhoto, with the video loaded (otherwise it only shows a toast)
CapturePhoto ==
    /\ videoRendered(mounts) /\ cameraActive
    /\ capturedImage' = CameraImage
    /\ uploadSource' = "camera"
    /\ streamRef' = streamRefStopped(mounts)
    /\ live' = liveStopped(mounts)
    /\ cameraActive' = FALSE
    /\ runs' = Replaced
    /\ UNCHANGED <<indexVars, mounts, scanning, cameraStarts, cams, readVars,
                   started, last, pureVars>>

\* handleFileUpload with an image file of at most 10MB (any other file only
\* shows a toast): reader.readAsDataURL(file)
HandleFileUpload(image) ==
    /\ videoRendered(mounts)
    /\ fileReads < MaxReads
    /\ fileReads' = fileReads + 1
    /\ reads' = reads \cup {[id |-> fileReads + 1, inst |-> mounts, image |-> image]}
    /\ UNCHANGED <<indexVars, scannerVars, cameraVars, runVars, pureVars>>

\* a reader.onload without setUploadSource('upload')
ReaderLoadsKeepingSource(k) ==
    /\ reads' = reads \ {k}
    /\ streamRef' = streamRefStopped(k.inst)
    /\ live' = liveStopped(k.inst)
    /\ IF mounted(k.inst)
       THEN /\ capturedImage' = k.image
            /\ cameraActive' = FALSE
            /\ runs' = Replaced
            /\ UNCHANGED uploadSource
       ELSE UNCHANGED <<capturedImage, uploadSource, cameraActive, runs>>
    /\ UNCHANGED <<indexVars, mounts, scanning, cameraStarts, cams, fileReads,
                   started, last, pureVars>>

\* reader.onload of read k
ReaderLoads(k) ==
    /\ reads' = reads \ {k}
    /\ streamRef' = streamRefStopped(k.inst)
    /\ live' = liveStopped(k.inst)
    /\ IF mounted(k.inst)
       THEN /\ capturedImage' = k.image
            /\ uploadSource' = "upload"
            /\ cameraActive' = FALSE
            /\ runs' = Replaced
       ELSE UNCHANGED <<capturedImage, uploadSource, cameraActive, runs>>
    /\ UNCHANGED <<indexVars, mounts, scanning, cameraStarts, cams, fileReads,
                   started, last, pureVars>>

\* retakePhoto
RetakePhoto ==
    /\ showScanner /\ capturedImage # Null
    /\ capturedImage' = Null
    /\ uploadSource' = "camera"
    /\ CameraStarted(mounts)
    /\ runs' = LeftBehind("retaken")
    /\ UNCHANGED <<indexVars, mounts, scanning, readVars, started, last, pureVars>>

(***************************************************************************)
(* processImage, cut at its awaits.                                        *)
(***************************************************************************)
\* the Scan Card button (disabled={scanning}), up to the await of
\* supabase.functions.invoke
ProcessImage ==
    /\ showScanner /\ capturedImage # Null /\ ~scanning
    /\ started < MaxRuns
    /\ scanning' = TRUE
    /\ started' = started + 1
    /\ runs' = runs \cup {NewRun(started + 1, mounts, capturedImage, uploadSource)}
    /\ UNCHANGED <<indexVars, mounts, capturedImage, cameraActive, uploadSource,
                   streamRef, cameraVars, readVars, last, pureVars>>

\* the Vision attempt of run succeeded: extractedText = response.data.text,
\* confidence = response.data.confidence || 0.8
remoteDone(run, data, cause, score) ==
    [run EXCEPT !.remote = "succeeded", !.cause = cause, !.score = score,
                !.extractedText = data.text, !.confidence = remoteConfidence(data)]

\* a catch block that invokes vision-ocr once more before it falls back
fallBackAfterRetry(run, cause) ==
    IF run.remoteCalls < 2
    THEN [run EXCEPT !.remoteCalls = @ + 1, !.cause = cause]
    ELSE [run EXCEPT !.pc = "local", !.remote = "failed", !.cause = cause,
                     !.localCalls = @ + 1, !.localImage = run.image]

\* the catch block of the Vision attempt, up to the await of
\* Tesseract.recognize(capturedImage, 'eng', ...)
fallBack(run, cause) ==
    [run EXCEPT !.pc = "local", !.remote = "failed", !.cause = cause,
                !.localCalls = @ + 1, !.localImage = run.image]

\* Tesseract.recognize has resolved with result.data = { text, confidence }:
\* extractedText = result.data.text, confidence = result.data.confidence / 100
localDone(run, text, confidence) ==
    [run EXCEPT !.localText = text, !.localConf = Just(confidence),
                !.extractedText = text, !.confidence = localConfidence(confidence)]

\* throw new Error(...) reaching the outer catch block: the Scan Failed toast
failed(run, description) ==
    [run EXCEPT !.pc = "done", !.outcome = "failed", !.error = description]

\* extractContactInfo, onScanComplete(extractedData), the Scan Complete toast
completed(run) ==
    [run EXCEPT !.pc = "done", !.outcome = "complete",
                !.delivered = Just(extractedData(run.extractedText, run.confidence,
                                                 run.source))]

\* the end of processImage for the call old, now run, once extractedText and
\* confidence are set: the length check, then handleScanComplete of Index
\* (which unmounts whichever CardScanner is shown) or the outer catch;
\* finally setScanning(false)
Finish(old, run) ==
    IF noTextDetected(run.extractedText)
    THEN /\ last' = Just(failed(run, NoTextMessage))
         /\ runs' = runs \ {old}
         /\ scanning' = IF mounted(run.inst) THEN FALSE ELSE scanning
         /\ UNCHANGED <<indexVars, mounts, capturedImage, cameraActive, uploadSource,
                        streamRef, live>>
    ELSE /\ last' = Just(completed(run))
         /\ runs' = runs \ {old}
         /\ scannedData' = last'[1].delivered
         /\ showScanner' = FALSE
         /\ showContactForm' = TRUE
         /\ IF showScanner THEN Unmounted
            ELSE UNCHANGED <<scannerVars, live>>

\* an outer catch with no finally block: scanning stays as it was
FailStillScanning(run, description) ==
    /\ last' = Just(failed(run, description))
    /\ runs' = runs \ {run}
    /\ UNCHANGED <<indexVars, mounts, scanning, capturedImage, cameraActive,
                   uploadSource, streamRef, live>>

\* the outer catch for an error thrown by Tesseract.recognize; finally
\* setScanning(false)
Fail(run, description) ==
    /\ last' = Just(failed(run, description))
    /\ runs' = runs \ {run}
    /\ scanning' = IF mounted(run.inst) THEN FALSE ELSE scanning
    /\ UNCHANGED <<indexVars, mounts, capturedImage, cameraActive, uploadSource,
                   streamRef, live>>

\* the awaited invoke of run settles with response; cause names what
\* happened on the way, score what the provider reported
RemoteSettled(run, response, cause, score) ==
    /\ run.pc = "remote"
    /\ IF remoteSucceeded(response)
       THEN Finish(run, remoteDone(run, response.data[1], cause, score))
       ELSE /\ runs' = (runs \ {run}) \cup {fallBack(run, cause)}
            /\ UNCHANGED <<indexVars, scannerVars, live, last>>
    /\ UNCHANGED <<cameraStarts, cams, readVars, started, pureVars>>

\* the request never reaches the edge function: invoke throws, or returns
\* data: null with an error
RemoteUnreachable(run, threw) ==
    RemoteSettled(run, Invoked(threw, None), "unreachable", None)

\* the edge function answers the POST of { imageData: capturedImage }; a
\* non-2xx answer reaches the caller as data: null
edgeAnswer(run, apiKey, provider) ==
    visionOcr("POST", TRUE, run.remoteImage, apiKey, provider)

dataOf(answer) == IF answer.status = 200 THEN Just(answer) ELSE None

RemoteAnswers(run, apiKey, provider) ==
    RemoteSettled(run, Invoked(FALSE, dataOf(edgeAnswer(run, apiKey, provider))),
                  IF apiKey THEN provider.kind ELSE "noKey",
                  IF apiKey THEN provider.score ELSE None)

\* the awaited Tesseract.recognize of run resolves
LocalResolves(run, text, confidence) ==
    /\ run.pc = "local"
    /\ Finish(run, localDone(run, text, confidence))
    /\ UNCHANGED <<cameraStarts, cams, readVars, started, pureVars>>

\* the awaited Tesseract.recognize of run rejects, with an Error or with
\* another value
LocalRejects(run, isError) ==
    /\ run.pc = "local"
    /\ Fail(run, toastDescription(isError, "Tesseract worker failed"))
    /\ UNCHANGED <<cameraStarts, cams, readVars, started, pureVars>>

\* ContactForm: onSave (handleContactSaved) and onClose of Index
CloseContactForm ==
    /\ showContactForm
    /\ showContactForm' = FALSE
    /\ scannedData' = None
    /\ UNCHANGED <<showScanner, scannerVars, cameraVars, readVars, runVars, pureVars>>

Next ==
    \/ OpenScanner
    \/ CloseScanner
    \/ \E c \in cams : GetUserMediaRejects(c)
    \/ \E c \in cams : GetUserMediaResolves(c)
    \/ \E c \in cams, ok \in BOOLEAN : PlaySettles(c, ok)
    \/ CapturePhoto
    \/ \E image \in UploadImages : HandleFileUpload(image)
    \/ \E k \in reads : ReaderLoads(k)
    \/ RetakePhoto
    \/ ProcessImage
    \/ \E run \in runs, threw \in BOOLEAN : RemoteUnreachable(run, threw)
    \/ \E run \in runs, apiKey \in BOOLEAN, provider \in Providers :
          RemoteAnswers(run, apiKey, provider)
    \/ \E run \in runs, text \in OcrTexts, confidence \in LocalConfidences :
          LocalResolves(run, text, confidence)
    \/ \E run \in runs, isError \in BOOLEAN : LocalRejects(run, isError)
    \/ CloseContactForm

Spec == Init /\ [][Next]_vars

\* an awaited engine call settles: invoke of vision-ocr returns or throws,
\* Tesseract.recognize resolves or rejects
Settles(providers, texts, confidences) ==
    \E run \in runs :
        \/ \E threw \in BOOLEAN : RemoteUnreachable(run, threw)
        \/ \E apiKey \in BOOLEAN, provider \in providers :
              RemoteAnswers(run, apiKey, provider)
        \/ \E text \in texts, confidence \in confidences :
              LocalResolves(run, text, confidence)
        \/ \E isError \in BOOLEAN : LocalRejects(run, isError)

\* one provider answer and one local reading for each way processImage ends
FairProviders ==
    {Provider("throws", Null, None), Provider("noAnnotation", Null, None),
     Provider("annotation", "Ann Lee\nAcme Inc", None)}

FairTexts == {"", "Ann Lee\nAcme Inc"}

FairConfidences == {87}

FairSettles == Settles(FairProviders, FairTexts, FairConfidences)

FairNext ==
    \/ OpenScanner
    \/ CloseScanner
    \/ \E c \in cams : GetUserMediaRejects(c)
    \/ \E c \in cams : GetUserMediaResolves(c)
    \/ \E c \in cams, ok \in BOOLEAN : PlaySettles(c, ok)
    \/ CapturePhoto
    \/ \E image \in UploadImages : HandleFileUpload(image)
    \/ \E k \in reads : ReaderLoads(k)
    \/ RetakePhoto
    \/ ProcessImage
    \/ FairSettles
    \/ CloseContactForm

\* the session in which no engine call stays pending for ever
FairSpec == Init /\ [][FairNext]_vars /\ WF_vars(FairSettles)


(***************************************************************************)
(* Properties of processImage and of the session around it.                *)
(***************************************************************************)
\* the processImage calls the state knows of: those at an await, and the one
\* that returned last
observed == runs \cup {last[i] : i \in 1..Len(last)}

\* a text of at least three characters once trimmed
readable(text) == text # Null /\ Len(trim(text)) >= 3

\* C1: whenever the Vision attempt of a processImage call fails, the call
\* runs Tesseract, once, on the same captured image, with no error shown; and
\* if Tesseract's text has at least 3 characters once trimmed, the call ends
\* in Scan Complete with no error, the record handed to onScanComplete
\* carrying Tesseract's text and Tesseract's confidence divided by 100.
TransparentFailover ==
    \A run \in observed :
        run.remote = "failed" =>
            /\ run.localCalls = 1
            /\ run.localImage = run.image
            /\ run.pc = "local" => run.outcome = "pending" /\ run.error = Null
            /\ (run.pc = "done" /\ readable(run.localText)) =>
                  /\ run.outcome = "complete"
                  /\ run.error = Null
                  /\ run.delivered # None
                  /\ run.delivered[1].raw_text = run.localText
                  /\ run.delivered[1].confidence * 100 = run.localConf[1] * 1000

\* a scan whose Vision attempt failed has completed with Tesseract's text at
\* confidence 87, and Index holds its record
FailoverCompleted ==
    /\ last # None
    /\ last[1].remote = "failed"
    /\ last[1].outcome = "complete"
    /\ last[1].localConf = Just(87)
    /\ last[1].error = Null
    /\ scannedData = last[1].delivered

\* C2: every processImage call that has returned either completed with a
\* text of at least 3 characters once trimmed and a confidence within 0..1,
\* or failed with the no-text message; no other error reaches the user.
TwoOutcomes ==
    \A run \in observed :
        run.pc = "done" =>
            \/ /\ run.outcome = "complete"
               /\ readable(run.extractedText)
               /\ run.confidence \in 0..1000
            \/ /\ run.outcome = "failed"
               /\ run.error = NoTextMessage

\* C3: every processImage call that ended in the no-text error had invoked
\* Tesseract on the image.
NoTextOnlyAfterBothEngines ==
    \A run \in observed :
        run.pc = "done" /\ run.error = NoTextMessage => run.localCalls >= 1

\* C4: onScanComplete never receives a record whose text has fewer than 3
\* characters once trimmed; a call whose final text is that short hands over
\* no record and shows an error, and its return leaves the captured image,
\* the scanner and Index's scannedData as they were.
NoRecordWithoutText ==
    /\ [](/\ scannedData # None => readable(scannedData[1].raw_text)
          /\ \A run \in observed :
                /\ run.delivered # None => readable(run.delivered[1].raw_text)
                /\ ( /\ run.pc = "done"
                     /\ run.remote = "succeeded" \/ run.localText # Null
                     /\ ~readable(run.extractedText) ) =>
                      /\ run.delivered = None
                      /\ run.outcome = "failed"
                      /\ run.error # Null)
    /\ [][(last' # last /\ last'[1].outcome = "failed") =>
             /\ capturedImage' = capturedImage
             /\ UNCHANGED <<indexVars, mounts, uploadSource>>]_vars

\* a scan has failed for want of text while the scanner still shows the
\* captured image and the Scan Card button is enabled again
NoTextKeepsImage ==
    /\ last # None
    /\ last[1].error = NoTextMessage
    /\ last[1].delivered = None
    /\ mounted(last[1].inst)
    /\ capturedImage = last[1].image
    /\ ~scanning
    /\ scannedData = None

\* C5: when the Vision attempt succeeds, the confidence of the record equals
\* the score the provider reported, 0 included, and 0.8 when it reported
\* none.
RemoteConfidenceIsScore ==
    \A run \in observed :
        run.remote = "succeeded" /\ run.delivered # None =>
            run.delivered[1].confidence =
                IF run.score = None THEN Milli(8, 10) ELSE run.score[1]

\* C6: when the provider answers without a text annotation, the edge
\* function answers with a failure, the Vision attempt of the call counts as
\* failed, the call shows no error at that point, and it runs Tesseract on
\* the same image: it ends only on what Tesseract did.
NoAnnotationFallsBack ==
    \A run \in observed :
        run.cause = "noAnnotation" =>
            /\ LET answer == edgeAnswer(run, TRUE, Provider("noAnnotation", Null, None))
               IN  /\ answer.status # 200
                   /\ ~answer.success
                   /\ answer.error # Null
            /\ run.remote = "failed"
            /\ run.localCalls = 1
            /\ run.localImage = run.image
            /\ run.pc = "local" => run.outcome = "pending" /\ run.error = Null
            /\ run.pc = "done" => run.localText # Null \/ run.error # NoTextMessage

\* a call is at the await of Tesseract.recognize after the provider sent no
\* annotation
NoAnnotationAtLocal ==
    \E run \in runs :
        /\ run.cause = "noAnnotation"
        /\ run.pc = "local"
        /\ run.localImage = run.image
        /\ run.outcome = "pending"

\* C7: a processImage call invokes vision-ocr once and Tesseract at most
\* once, Tesseract only after the Vision attempt has failed; and no step
\* invokes an engine for a call that has returned: an engine is invoked only
\* by the single fallback of a call still at its Vision attempt, or by a new
\* call the user starts.
NoAutomaticRetry ==
    /\ [](\A run \in observed :
             /\ run.remoteCalls = 1
             /\ run.localCalls <= 1
             /\ run.localCalls = 1 => run.remote = "failed"
             /\ run.remote = "pending" => run.localCalls = 0)
    /\ [][/\ \A after \in runs' :
               \/ \E run \in runs :
                     /\ run.id = after.id
                     /\ after.remoteCalls = run.remoteCalls
                     /\ after.localCalls - run.localCalls \in {0, 1}
                     /\ after.localCalls > run.localCalls => run.pc = "remote"
               \/ /\ after.id = started + 1
                  /\ started' = started + 1
                  /\ ~scanning /\ scanning'
          /\ last' # last =>
               \E run \in runs :
                     /\ run.id = last'[1].id
                     /\ last'[1].remoteCalls = run.remoteCalls
                     /\ last'[1].localCalls = run.localCalls]_vars

\* a scan has failed after its fallback, nothing is in flight, and the
\* scanner waits for the user with the image still there
FailedAndIdle ==
    /\ last # None
    /\ last[1].outcome = "failed"
    /\ last[1].remoteCalls = 1
    /\ last[1].localCalls = 1
    /\ runs = {}
    /\ showScanner /\ capturedImage # Null /\ ~scanning

\* C8: at most one processImage call is in flight at any time of a session.
OneScanInFlight == Cardinality(runs) <= 1

\* C9: a scan the user abandoned while it was in flight (scanner closed, or
\* Retake and another image) never completes: it never calls onScanComplete,
\* so never changes scannedData, showScanner or showContactForm.
StaleNeverDelivers ==
    last # None /\ last[1].stage = "abandoned" => last[1].outcome # "complete"

\* C23: the confidence of the record handed to onScanComplete is the
\* confidence of the call, which is the confidence the vision-ocr answer
\* carried (the provider's score or the default) when the Vision text was
\* used, and Tesseract's confidence divided by 100 when Tesseract's was.
ConfidencePassedThrough ==
    \A run \in observed :
        run.delivered # None =>
            /\ run.delivered[1].confidence = run.confidence
            /\ run.remote = "succeeded" =>
                  run.confidence =
                      edgeAnswer(run, TRUE, Provider("annotation", run.extractedText,
                                                     run.score)).confidence[1]
            /\ run.remote = "failed" =>
                  run.confidence * 100 = run.localConf[1] * 1000

\* a scan has completed on the Vision text with the provider's score 0.95,
\* and Index holds the record with that confidence
RemoteScoreDelivered ==
    /\ last # None
    /\ last[1].remote = "succeeded"
    /\ last[1].score = Just(Milli(95, 100))
    /\ last[1].delivered # None
    /\ scannedData # None
    /\ scannedData[1].confidence = Milli(95, 100)

\* C24: the image the scanner shows and its uploadSource agree, and so do
\* the image and the source of every processImage call and of the record it
\* hands over: 'camera' for an image of capturePhoto, 'upload' for an image
\* of handleFileUpload.
SourceMatchesImage ==
    /\ showScanner /\ capturedImage # Null =>
          uploadSource = (IF capturedImage = CameraImage THEN "camera" ELSE "upload")
    /\ \A run \in observed :
          /\ run.image = CameraImage => run.source = "camera"
          /\ run.image \in UploadImages => run.source = "upload"
          /\ run.delivered # None => run.delivered[1].source = run.source

\* the scan of an uploaded image, left behind by Retake and a captured photo
\* while it was in flight, has handed over a record of source 'upload'
UploadScanOutlivesRetake ==
    /\ last # None
    /\ last[1].stage = "abandoned"
    /\ last[1].image \in UploadImages
    /\ last[1].inst = mounts
    /\ last[1].delivered # None
    /\ last[1].delivered[1].source = "upload"

(***************************************************************************)
(* extractContactInfo on its own: a text is drawn, the function applied.   *)
(***************************************************************************)
\* the lines a card text is a sequence of
MaxLines == 2

LinePool ==
    {"Jane Doe", "Acme Solutions Inc", "Senior Engineer", "jane@acme.com",
     "+1 (415) 555-0132", "Suite 5 Main Street", "Director of Tech",
     "www.acme.com", " x", "San Jose, CA 00000",
     "94105", "Tel: +1 (415) 555-0132", "(415) 555-0132"}

\* longer cards, of lines that do or do not have the shape of a name
MaxLongLines == 6

LongPool == {"Jane Doe", "jane@acme.com"}

RECURSIVE joined(_)
joined(lines) ==
    IF lines = <<>> THEN ""
    ELSE IF Len(lines) = 1 THEN lines[1]
    ELSE lines[1] \o "\n" \o joined(Tail(lines))

CardTexts ==
    {joined(lines) : lines \in UNION {[1..n -> LinePool] : n \in 0..MaxLines}}
    \cup {joined(lines) : lines \in [1..MaxLongLines -> LongPool]}

\* what a call returns, with what it had found when it returned
returned(found, text, confidence, source) ==
    [found |-> found, contact |-> contactOf(found, text, confidence, source)]

ExtractInit == InitApp /\ input \in CardTexts /\ NoCalls

\* extractContactInfo(input, confidence) in a CardScanner whose uploadSource
\* is the one of the state
Extract(confidence) ==
    /\ output = None
    /\ output' = Just(returned(classify(input), input, confidence, uploadSource))
    /\ UNCHANGED <<indexVars, scannerVars, cameraVars, readVars, runVars, input,
                   calls, searchEnd>>

ExtractNext == \E confidence \in {Milli(8, 10), Milli(87, 100)} : Extract(confidence)

ExtractSpec == ExtractInit /\ [][ExtractNext]_vars

(***************************************************************************)
(* extractContactInfo called again and again by one CardScanner.           *)
(***************************************************************************)
MaxCalls == 2

MaxRepeatLines == 2

RepeatPool ==
    {"Jane Doe", "Acme Solutions Inc", "jane@acme.com", "+1 (415) 555-0132",
     "www.acme.com", "Suite 5 Main Street"}

RepeatTexts ==
    {joined(lines) : lines \in UNION {[1..n -> RepeatPool] : n \in 0..MaxRepeatLines}}

RepeatInit == InitApp /\ input \in RepeatTexts /\ NoCalls

\* one more call extractContactInfo(input, confidence); its global searches
\* run to the end of cleanText
Call(confidence) ==
    /\ calls < MaxCalls
    /\ calls' = calls + 1
    /\ output' = Just(returned(classifyAfter(input, searchEnd), input, confidence,
                              uploadSource))
    /\ searchEnd' = Len(cleanText(input))
    /\ UNCHANGED <<indexVars, scannerVars, cameraVars, readVars, runVars, input>>

RepeatNext == \E confidence \in {Milli(8, 10), Milli(87, 100)} : Call(confidence)

RepeatSpec == RepeatInit /\ [][RepeatNext]_vars

\* C10: no two of nameCandidate, companyCandidate, jobTitleCandidate and
\* addressCandidate of one extractContactInfo call are the same line.
DistinctLines ==
    output # None =>
        LET found == output[1].found
            at == <<found.nameAt, found.companyAt, found.jobTitleAt, found.addressAt>>
        IN  \A i, j \in 1..4 : i < j /\ at[i] # 0 => at[i] # at[j]

\* what the extractContactInfo call of the state returned
extracted == output[1]

\* C11: the line chosen as company is never chosen as jobTitle: when company
\* and jobTitle are both set they are different lines, also as texts.
CompanyLineNotJobTitle ==
    output # None =>
        /\ extracted.found.companyAt # 0 =>
              extracted.found.jobTitleAt # extracted.found.companyAt
        /\ extracted.contact.company # Null /\ extracted.contact.job_title # Null =>
              extracted.contact.company # extracted.contact.job_title

\* a call has chosen as company a line that holds a job-title keyword, and
\* has not chosen it as jobTitle
TitleKeywordLineIsCompany ==
    /\ output # None
    /\ extracted.found.companyAt # 0
    /\ hasTitleKeyword(toLowerCase(extracted.contact.company))
    /\ extracted.found.jobTitleAt # extracted.found.companyAt

\* C12: if a line that is not the name line and contains no extracted email
\* or phone holds a company keyword, company is the first such line, whatever
\* Title-Case line without a keyword precedes it.
CompanyKeywordFirst ==
    output # None =>
        LET lines == extracted.found.lines
            keyworded ==
                {k \in 1..Len(lines) :
                    /\ lines[k] # lineAt(lines, extracted.found.nameAt)
                    /\ ~containsEmail(toLowerCase(lines[k]), extracted.found.emails)
                    /\ ~containsPhone(toLowerCase(lines[k]), extracted.found.phones)
                    /\ hasCompanyKeyword(toLowerCase(lines[k]))}
        IN  keyworded # {} => extracted.found.companyAt = FirstOf(keyworded)

\* C13: when no line matches the street, the city-state-ZIP or the 6-digit
\* pattern and some line holds a 5-digit number and no email address,
\* location is the first such line.
FiveDigitFallback ==
    output # None =>
        LET lines == extracted.found.lines
            stronger ==
                {k \in 1..Len(lines) :
                    \/ Test(streetRegex, lines[k], TRUE)
                    \/ Test(cityStateZipRegex, lines[k], FALSE)
                    \/ Test(Rep(Set(Digits), 6, 6), lines[k], FALSE)}
            fiveDigits ==
                {k \in 1..Len(lines) :
                    /\ Test(Rep(Set(Digits), 5, 5), lines[k], FALSE)
                    /\ ~Test(emailRegex, lines[k], TRUE)}
        IN  stronger = {} /\ fiveDigits # {} =>
                /\ extracted.found.addressAt = FirstOf(fiveDigits)
                /\ extracted.contact.location = lines[FirstOf(fiveDigits)]

\* C14: the line chosen as name, company or location holds no extracted
\* email address and no extracted phone number as written on the card.
NoContactTextInFields ==
    output # None =>
        \A at \in {extracted.found.nameAt, extracted.found.companyAt,
                   extracted.found.addressAt} :
            at # 0 =>
                /\ \A k \in 1..Len(extracted.found.emails) :
                      ~includes(toLowerCase(extracted.found.lines[at]),
                                toLowerCase(extracted.found.emails[k]))
                /\ \A k \in 1..Len(extracted.found.phones) :
                      ~includes(extracted.found.lines[at], extracted.found.phones[k])

WholePhoneCaptured ==
    output # None =>
        \A written \in {"+1 (415) 555-0132", "(415) 555-0132"} :
            input = written =>
                /\ extracted.contact.phone # Null
                /\ digitsOf(extracted.contact.phone) = digitsOf(written)

\* C17: phone, when set, is a non-empty string of decimal digits, with at
\* most one '+' that is its first character; the card "+1 (415) 555-0132"
\* yields "+14155550132".
PhoneFormat ==
    output # None =>
        /\ extracted.contact.phone # Null =>
              /\ Len(extracted.contact.phone) >= 1
              /\ \A i \in 1..Len(extracted.contact.phone) :
                    \/ Ch(extracted.contact.phone, i) \in Digits
                    \/ Ch(extracted.contact.phone, i) = "+" /\ i = 1
        /\ input = "+1 (415) 555-0132" => extracted.contact.phone = "+14155550132"

\* a call on the card "+1 (415) 555-0132" has returned that phone
PhoneWithCountryCode ==
    /\ output # None
    /\ input = "+1 (415) 555-0132"
    /\ extracted.found.phones = <<"+1 (415) 555-0132">>
    /\ extracted.contact.phone = "+14155550132"

\* C18: website, when set, starts with neither a scheme nor "www."; the card
\* "www.acme.com" yields "acme.com".
WebsiteNormalized ==
    output # None =>
        /\ extracted.contact.website # Null =>
              /\ ~Test(Cat(<<Bol, Lit("http"), Opt(Lit("s")), Lit("://")>>),
                       extracted.contact.website, TRUE)
              /\ ~Test(Cat(<<Bol, Lit("www.")>>), extracted.contact.website, TRUE)
        /\ input = "www.acme.com" => extracted.contact.website = "acme.com"

\* C19: raw_text of the returned record equals the input text, whatever was
\* detected.
RawTextVerbatim == output # None => extracted.contact.raw_text = input

\* a call on a text with leading white space has detected a name and
\* returned the text as it was
RawTextKeepsWhiteSpace ==
    /\ output # None
    /\ trim(input) # input
    /\ extracted.contact.name # Null
    /\ extracted.contact.raw_text = input

\* C20: what a call returns is a record of the ten fields, whatever the
\* text; for the empty text every extracted field is unset and raw_text is
\* the empty text.
NeverThrows ==
    output # None =>
        /\ DOMAIN extracted.contact =
              {"name", "email", "phone", "website", "company", "job_title",
               "location", "raw_text", "source", "confidence"}
        /\ input = "" =>
              /\ \A field \in {"name", "email", "phone", "website", "company",
                               "job_title", "location"} :
                    extracted.contact[field] = Null
              /\ extracted.contact.raw_text = ""

\* a call on the empty text has returned a record with nothing detected
EmptyTextExtracted ==
    /\ output # None
    /\ input = ""
    /\ extracted.found.lines = <<>>
    /\ extracted.contact.email = Null
    /\ extracted.contact.raw_text = ""

\* C21: each of name, company, jobTitle and location, when set, is a retained
\* line (trimmed, longer than one character) that satisfies the test of its
\* field; a company without a company keyword is one of the first 5 lines;
\* and a field whose test no line satisfies is unset.
NeverGuessed ==
    output # None =>
        LET lines == extracted.found.lines
            named == {k \in 1..Len(lines) :
                         isValidName(lines[k]) /\ hasNoNumbers(lines[k])}
            keyworded == {k \in 1..Len(lines) : hasCompanyKeyword(toLowerCase(lines[k]))}
            proper == {k \in 1..Len(lines) : isProperCase(lines[k])}
            titled == {k \in 1..Len(lines) : hasTitleKeyword(toLowerCase(lines[k]))}
            addressed == {k \in 1..Len(lines) : looksLikeAddress(lines[k])}
        IN  /\ \A k \in 1..Len(lines) : Len(lines[k]) > 1 /\ trim(lines[k]) = lines[k]
            /\ extracted.contact.name # Null =>
                  \E k \in named : extracted.contact.name = lines[k]
            /\ extracted.contact.company # Null =>
                  \E k \in keyworded \cup {j \in proper : j <= 5} :
                      extracted.contact.company = lines[k]
            /\ extracted.contact.job_title # Null =>
                  \E k \in titled : extracted.contact.job_title = lines[k]
            /\ extracted.contact.location # Null =>
                  \E k \in addressed : extracted.contact.location = lines[k]
            /\ named = {} => extracted.contact.name = Null
            /\ keyworded \cup proper = {} => extracted.contact.company = Null
            /\ titled = {} => extracted.contact.job_title = Null
            /\ addressed = {} => extracted.contact.location = Null

\* a call on a card of six lines whose only Title-Case line, without a
\* company keyword, is the sixth has set no company
SixthLineNotCompany ==
    /\ output # None
    /\ Len(extracted.found.lines) = 6
    /\ isProperCase(extracted.found.lines[6])
    /\ ~hasCompanyKeyword(toLowerCase(extracted.found.lines[6]))
    /\ \A k \in 1..5 : ~isProperCase(extracted.found.lines[k])
    /\ extracted.contact.company = Null

StreamsReleased ==
    (~showScanner \/ capturedImage # Null) /\ cams = {} => live = {}

\* C28: while the scanner is shown, scanning is true exactly while a
\* processImage call of that scanner is in flight; and once the engine
\* calls settle it is false again, whatever the outcome.
ScanningWhileInFlight ==
    /\ [](showScanner => (scanning <=> \E run \in runs : run.inst = mounts))
    /\ (scanning ~> ~scanning)

\* a scan of the scanner shown has failed at the local engine and the
\* scanner, still open, is not scanning
FailedScanNotScanning ==
    /\ showScanner
    /\ ~scanning
    /\ last # None
    /\ last[1].inst = mounts
    /\ last[1].outcome = "failed"
    /\ last[1].localCalls = 1
    /\ last[1].localText = Null

(***************************************************************************)
(* The vision-ocr handler on its own: an image is drawn, a request served. *)
(***************************************************************************)
\* file.type of the images handleFileUpload accepts (image/...), image/jpeg
\* being also what capturePhoto produces; and base64 payloads
ImageTypes == {"jpeg", "png", "webp", "svg+xml", "x-icon"}

Payloads == {"Q0FN", "UE5H"}

\* canvas.toDataURL / reader.readAsDataURL
dataUri(type, payload) == "data:image/" \o type \o ";base64," \o payload

ImageUris == {dataUri(type, payload) : type \in ImageTypes, payload \in Payloads}

ServeInit == InitApp /\ input \in ImageUris /\ NoCalls

\* what the handler was asked and what it answered
served(method, bodyOk, apiKey, provider, answer) ==
    [method |-> method, bodyOk |-> bodyOk, apiKey |-> apiKey, provider |-> provider,
     answer |-> answer]

\* the handler serves one request whose body, when readable, holds the image
Serve(method, bodyOk, apiKey, provider) ==
    /\ output = None
    /\ output' = Just(served(method, bodyOk, apiKey, provider,
                             visionOcr(method, bodyOk, input, apiKey, provider)))
    /\ UNCHANGED <<indexVars, scannerVars, cameraVars, readVars, runVars, input,
                   calls, searchEnd>>

ServeNext ==
    \E method \in {"OPTIONS", "POST"}, bodyOk \in BOOLEAN, apiKey \in BOOLEAN,
       provider \in Providers :
        Serve(method, bodyOk, apiKey, provider)

ServeSpec == ServeInit /\ [][ServeNext]_vars

\* C25: for every image data:image/<subtype>;base64,<payload> the scanner
\* accepts, the content the handler posts to the provider is <payload>.
PayloadOnlyPosted ==
    output # None /\ output[1].answer.content # Null =>
        \E type \in ImageTypes, payload \in Payloads :
            /\ input = dataUri(type, payload)
            /\ output[1].answer.content = payload

\* C26: the handler answers an OPTIONS request with 'ok' and does not call
\* the provider; it answers any other request with status 200, success,
\* the text of the annotation and a confidence exactly when the body was
\* readable, the API key set and the provider sent a first text annotation,
\* and otherwise with status 500, no success and an error message; it calls
\* the provider only with a readable body and an API key.
HandlerConsistent ==
    output # None =>
        LET answer == output[1].answer
            annotated == /\ output[1].bodyOk
                         /\ output[1].apiKey
                         /\ output[1].provider.kind = "annotation"
        IN  IF output[1].method = "OPTIONS"
            THEN /\ answer.status = 200
                 /\ answer.body = "ok"
                 /\ answer.content = Null
            ELSE /\ answer.body = Null
                 /\ answer.status = 200 <=> annotated
                 /\ answer.content # Null <=> output[1].bodyOk /\ output[1].apiKey
                 /\ annotated =>
                       /\ answer.success
                       /\ answer.text = output[1].provider.description
                       /\ answer.confidence # None
                       /\ answer.error = Null
                 /\ ~annotated =>
                       /\ answer.status = 500
                       /\ ~answer.success
                       /\ answer.error # Null
                       /\ answer.text = Null
                       /\ answer.confidence = None

\* the handler has answered a request made without an API key
NoKeyAnswered ==
    /\ output # None
    /\ output[1].method = "POST"
    /\ output[1].bodyOk
    /\ ~output[1].apiKey
    /\ output[1].answer.status = 500
    /\ output[1].answer.error = "Google Cloud API key not configured"
    /\ output[1].answer.content = Null

=============================================================================
